---------------------------- MODULE Spec2Model ----------------------------
(***************************************************************************)
(* MAX17048 fuel-gauge register driver (src/max17048.c, src/max17048.h).   *)
(*                                                                         *)
(* The device is a set of 16-bit registers behind a two-wire bus.  The     *)
(* variable bus holds every register as the transport delivers it          *)
(* (big-endian on the wire, so byte-swapped with respect to the host);     *)
(* read_reg and write_reg swap at the boundary.  Each public function of   *)
(* the driver is one action; the outcome of every transport call it makes  *)
(* is an input (a plan of successes and failures).                         *)
(***************************************************************************)
EXTENDS Integers, Sequences, FiniteSets, TLC

VARIABLES
    bus,    \* [Regs -> Word]: the registers, in the byte order of the wire
    op,     \* the last public function called ("none" before the first)
    arg,    \* its argument (0 when it takes none)
    ret,    \* its return value
    out,    \* what it stored through its output pointer (NotWritten: nothing)
    calls,  \* the transport calls it issued, in order
    pre,    \* bus as it was when the call started
    last,   \* per setter, the argument of its last successful call (NotSet: none)
    pc,     \* concurrent tasks: where each task is inside modify_reg
    buf,    \* concurrent tasks: modify_reg's local buf
    targ,   \* concurrent tasks: the argument of the task's setter
    overlap,\* concurrent tasks: whether the two calls overlapped in time
    percent_cfg \* the low-battery percentage the application is built with

vars == <<bus, op, arg, ret, out, calls, pre, last, pc, buf, targ, overlap,
          percent_cfg>>

---------------------------------------------------------------------------
(* Machine arithmetic.  Every operand narrower than int is promoted to a   *)
(* 32-bit int (or unsigned int, for the U-suffixed constants) before an    *)
(* operator is applied; no intermediate value of the driver leaves the     *)
(* range 0 .. 2^31 - 1 except ~mask, which is the negative int -mask - 1.  *)
(* Integers here are two's complement of unbounded width, which agrees     *)
(* with the 32-bit operators on that range.  A cast to uint16_t or uint8_t *)
(* keeps the low bits.                                                     *)

Word == 0 .. (2 ^ 16 - 1)

Byte == 0 .. (2 ^ 8 - 1)

U16(x) == x % (2 ^ 16)

U8(x) == x % (2 ^ 8)

(* Bitwise AND and OR of one bit, then of four bits (as tables), then of   *)
(* whole integers four bits at a time; -1 is the integer of all ones.      *)
RECURSIVE And1(_, _)
And1(a, b) ==
    IF a = 0 \/ b = 0 THEN 0
    ELSE (a % 2) * (b % 2) + 2 * And1(a \div 2, b \div 2)

RECURSIVE Or1(_, _)
Or1(a, b) ==
    IF a = 0 THEN b
    ELSE IF b = 0 THEN a
    ELSE (IF a % 2 = 1 \/ b % 2 = 1 THEN 1 ELSE 0) + 2 * Or1(a \div 2, b \div 2)

AndNibble == [a \in 0 .. 15 |-> [b \in 0 .. 15 |-> And1(a, b)]]

OrNibble == [a \in 0 .. 15 |-> [b \in 0 .. 15 |-> Or1(a, b)]]

RECURSIVE BitAnd(_, _)
BitAnd(a, b) ==
    IF a = 0 \/ b = 0 THEN 0
    ELSE IF a = 0 - 1 THEN b
    ELSE IF b = 0 - 1 THEN a
    ELSE AndNibble[a % 16][b % 16] + 16 * BitAnd(a \div 16, b \div 16)

RECURSIVE BitOr(_, _)
BitOr(a, b) ==
    IF a = 0 THEN b
    ELSE IF b = 0 THEN a
    ELSE IF a = 0 - 1 \/ b = 0 - 1 THEN 0 - 1
    ELSE OrNibble[a % 16][b % 16] + 16 * BitOr(a \div 16, b \div 16)

BitNot(a) == 0 - a - 1

Shl(a, n) == a * (2 ^ n)

Shr(a, n) == a \div (2 ^ n)

Bit(x, i) == (x \div (2 ^ i)) % 2

---------------------------------------------------------------------------
(* Registers and masks (src/max17048.c lines 8-53, src/max17048.h).        *)

VCELL == 2
SOC == 4
VERSION == 8
CONFIG == 12
VALRT == 20
VRESET_ID == 24
STATUS == 26

Regs == {VCELL, SOC, VERSION, CONFIG, VALRT, VRESET_ID, STATUS}

VERSION_MSK == 65520
PART_NUMBER == 16

BAT_LOW_PERCENT == 15

BAT_LOW_POS == 0
BAT_LOW_MSK == Shl(31, BAT_LOW_POS)
BAT_LOW_MIN == 1
BAT_LOW_MAX == 32

ALRT_BIT_POS == 5
ALRT_BIT_MSK == Shl(1, ALRT_BIT_POS)

ALSC_BIT_POS == 6
ALSC_BIT_MSK == Shl(1, ALSC_BIT_POS)

VALRT_MAX_POS == 0
VALRT_MAX_MSK == Shl(255, VALRT_MAX_POS)
VALRT_MIN_POS == 8
VALRT_MIN_MSK == Shl(255, VALRT_MIN_POS)
VALRT_RESOLUTION == 20

VRESET_POS == 9
VRESET_MSK == Shl(127, VRESET_POS)
VRESET_RESOLUTION == 40

ENVR_BIT_POS == 14
ENVR_BIT_MSK == Shl(1, ENVR_BIT_POS)

ALRT_STATUS_POS == 8
ALRT_STATUS_MSK == Shl(63, ALRT_STATUS_POS)

MAX_ALERT_RESET == 1
MAX_ALERT_OVERVOLTED == 2
MAX_ALERT_UNDERVOLTED == 4
MAX_ALERT_VOLTAGE_RESET == 128
MAX_ALERT_SOC_LOW == 16
MAX_ALERT_SOC_CHANGE == 32

VCELL_TO_MV_16(vcell) == Shr((vcell * 5) % (2 ^ 16), 6)

VCELL_TO_MV(vcell) == Shr(vcell * 5, 6)

SWAP16(x) == U16(BitOr(Shl(x, 8), Shr(x, 8)))

---------------------------------------------------------------------------
(* The transport (i2c.h, not part of the driver): one 16-bit register read *)
(* or write that succeeds or fails.  A context c carries the device, the   *)
(* outcomes still to come (plan) and the calls issued so far; a failed     *)
(* write leaves the device as it was.                                      *)

NotWritten == 0 - 1

NotSet == 0 - 1

Ctx(b) == [bus |-> b, calls |-> <<>>]

Called(c, kind, reg, ok) == Append(c.calls, <<kind, reg, ok>>)

i2c_master_read_u16(c, reg) ==
    { [ok  |-> o,
       val |-> c.bus[reg],
       c   |-> [bus |-> c.bus, calls |-> Called(c, "read", reg, o)]] : o \in BOOLEAN }

i2c_master_write_u16(c, reg, data) ==
    { [ok |-> o,
       c  |-> [bus   |-> IF o THEN [c.bus EXCEPT ![reg] = data] ELSE c.bus,
               calls |-> Called(c, "write", reg, o)]] : o \in BOOLEAN }

(* read_reg: on failure *out is not assigned by the driver (val is then    *)
(* NotWritten; no caller but max17048_get_alerts looks at it).             *)
read_reg(c, reg) ==
    { IF ~r.ok THEN [ok |-> FALSE, val |-> NotWritten, c |-> r.c]
      ELSE [ok |-> TRUE, val |-> SWAP16(r.val), c |-> r.c]
      : r \in i2c_master_read_u16(c, reg) }

write_reg(c, reg, data) == i2c_master_write_u16(c, reg, SWAP16(data))

Merge_clobber(old, data, mask) == U16(BitAnd(data, mask))

Merge_noclear(old, data, mask) == U16(BitOr(old, BitAnd(data, mask)))

Merge(old, data, mask) == U16(BitOr(BitAnd(old, BitNot(mask)), BitAnd(data, mask)))

modify_reg_writeanyway(c, reg, data, mask) ==
    UNION { write_reg(r.c, reg, Merge(IF r.ok THEN r.val ELSE 0, data, mask))
            : r \in read_reg(c, reg) }

modify_reg(c, reg, data, mask) ==
    UNION { IF ~r.ok THEN {[ok |-> FALSE, c |-> r.c]}
            ELSE write_reg(r.c, reg, Merge(r.val, data, mask))
            : r \in read_reg(c, reg) }

(* The value a register holds: its first byte on the wire is the high     *)
(* byte ("MAX17048 uses big endian register layout").                      *)
DeviceValue(b, reg) == (b[reg] % 256) * 256 + (b[reg] \div 256)

WireValue(v) == (v % 256) * 256 + (v \div 256)

---------------------------------------------------------------------------
(* The public functions.  Each takes the context and its arguments (a      *)
(* pointer argument is a boolean: whether it is non-null) and yields the   *)
(* set of its possible results: its return value, what it stored through   *)
(* the pointer, and the context.                                           *)

Result(r, o, c) == [ret |-> r, out |-> o, c |-> c]

is_present_anyversion(c) ==
    { Result(r.ok, NotWritten, r.c) : r \in read_reg(c, VERSION) }

max17048_is_present(c) ==
    { IF ~r.ok THEN Result(FALSE, NotWritten, r.c)
      ELSE Result(BitAnd(r.val, VERSION_MSK) = PART_NUMBER, NotWritten, r.c)
      : r \in read_reg(c, VERSION) }

max17048_get_vcell(c, mv) ==
    IF ~mv THEN {Result(FALSE, NotWritten, c)}
    ELSE { IF ~r.ok THEN Result(FALSE, NotWritten, r.c)
           ELSE Result(TRUE, U16(VCELL_TO_MV(r.val)), r.c)
           : r \in read_reg(c, VCELL) }

get_soc_lowbyte(c, percent) ==
    IF ~percent THEN {Result(FALSE, NotWritten, c)}
    ELSE { IF ~r.ok THEN Result(FALSE, NotWritten, r.c)
           ELSE Result(TRUE, U8(r.val), r.c)
           : r \in read_reg(c, SOC) }

max17048_get_soc(c, percent) ==
    IF ~percent THEN {Result(FALSE, NotWritten, c)}
    ELSE { IF ~r.ok THEN Result(FALSE, NotWritten, r.c)
           ELSE Result(TRUE, U8(Shr(r.val, 8)), r.c)
           : r \in read_reg(c, SOC) }

Modified(ms) == { Result(m.ok, NotWritten, m.c) : m \in ms }

bat_low_data_noinvert(percent) == U16(BitAnd(percent, BAT_LOW_MSK))

bat_low_data(percent) ==
    U16(BitAnd(BAT_LOW_MAX - (percent % BAT_LOW_MAX), BAT_LOW_MSK))

bat_low_valid(percent) == ~(percent < BAT_LOW_MIN \/ percent > BAT_LOW_MAX)

max17048_set_bat_low_soc(c, percent) ==
    IF ~bat_low_valid(percent) THEN {Result(FALSE, NotWritten, c)}
    ELSE Modified(modify_reg(c, CONFIG, bat_low_data(percent), BAT_LOW_MSK))

max17048_set_undervolted_voltage(c, mv) ==
    LET data == U16(BitAnd(Shl(mv \div VALRT_RESOLUTION, VALRT_MIN_POS), VALRT_MIN_MSK))
    IN  Modified(modify_reg(c, VALRT, data, VALRT_MIN_MSK))

max17048_set_overvolted_voltage(c, mv) ==
    LET data == U16(BitAnd(Shl(mv \div VALRT_RESOLUTION, VALRT_MAX_POS), VALRT_MAX_MSK))
    IN  Modified(modify_reg(c, VALRT, data, VALRT_MAX_MSK))

max17048_set_reset_voltage(c, mv) ==
    LET data == U16(BitAnd(Shl(mv \div VRESET_RESOLUTION, VRESET_POS), VRESET_MSK))
    IN  Modified(modify_reg(c, VRESET_ID, data, VRESET_MSK))

(* enable is a bool: 0 or 1 as an int.                                     *)
soc_change_data(enable) == U16(BitAnd(Shl(enable, ALSC_BIT_POS), ALSC_BIT_MSK))

max17048_set_soc_change_alert(c, enable) ==
    Modified(modify_reg(c, CONFIG, soc_change_data(enable), ALSC_BIT_MSK))

max17048_set_voltage_reset_alert(c, enable) ==
    LET data == U16(BitAnd(Shl(enable, ENVR_BIT_POS), ENVR_BIT_MSK))
    IN  Modified(modify_reg(c, STATUS, data, ENVR_BIT_MSK))

clear_alerts_statusonly(c) ==
    Modified(modify_reg(c, STATUS, 0, ALRT_STATUS_MSK))

max17048_clear_alerts(c) ==
    UNION { IF ~st.ok THEN {Result(FALSE, NotWritten, st.c)}
            ELSE Modified(modify_reg(st.c, CONFIG, 0, ALRT_BIT_MSK))
            : st \in modify_reg(c, STATUS, 0, ALRT_STATUS_MSK) }

(* The values the local data of max17048_get_alerts may hold when the      *)
(* STATUS read failed and nothing was assigned to it: it is read           *)
(* uninitialized.  Only bits 8-13 of it are looked at.                     *)
Indeterminate == {Shl(f, ALRT_STATUS_POS) : f \in 0 .. 63}

AlertsOf(data) == U8(Shr(BitAnd(data, ALRT_STATUS_MSK), ALRT_STATUS_POS))

(* alerts: whether the pointer is non-null.  The clear is skipped when the *)
(* read failed, and the function returns true whatever ok has become.      *)
max17048_get_alerts(c, alerts) ==
    IF ~alerts THEN {Result(FALSE, NotWritten, c)}
    ELSE UNION { IF ~r.ok
                 THEN { Result(TRUE, AlertsOf(junk), r.c) : junk \in Indeterminate }
                 ELSE { Result(TRUE, AlertsOf(r.val), cl.c)
                        : cl \in max17048_clear_alerts(r.c) }
                 : r \in read_reg(c, STATUS) }

---------------------------------------------------------------------------
(* Actions: one per public function.                                       *)

Setters == {"bat_low", "undervolted", "overvolted", "reset_voltage",
            "soc_change", "voltage_reset"}

Tasks == {"A", "B"}

Quiet ==
    /\ pc = [t \in Tasks |-> "idle"]
    /\ buf = [t \in Tasks |-> 0]
    /\ targ = [t \in Tasks |-> 0]
    /\ overlap = FALSE

Start(b) ==
    /\ bus = b
    /\ op = "none"
    /\ arg = 0
    /\ ret = FALSE
    /\ out = NotWritten
    /\ calls = <<>>
    /\ pre = b
    /\ last = [s \in Setters |-> NotSet]
    /\ Quiet

InitWith(b) ==
    /\ Start(b)
    /\ percent_cfg = BAT_LOW_PERCENT

Return(name, a, r) ==
    /\ bus' = r.c.bus
    /\ op' = name
    /\ arg' = a
    /\ ret' = r.ret
    /\ out' = r.out
    /\ calls' = r.c.calls
    /\ pre' = bus
    /\ UNCHANGED <<pc, buf, targ, overlap, percent_cfg>>

IsPresent ==
    \E r \in max17048_is_present(Ctx(bus)) :
        /\ Return("is_present", 0, r)
        /\ UNCHANGED last

GetVcell ==
    \E mv \in BOOLEAN : \E r \in max17048_get_vcell(Ctx(bus), mv) :
        /\ Return("get_vcell", 0, r)
        /\ UNCHANGED last

GetSoc ==
    \E percent \in BOOLEAN : \E r \in max17048_get_soc(Ctx(bus), percent) :
        /\ Return("get_soc", 0, r)
        /\ UNCHANGED last

Setter(name, a, r) ==
    /\ Return(name, a, r)
    /\ last' = IF r.ret THEN [last EXCEPT ![name] = a] ELSE last

SetBatLowSoc(percents) ==
    \E percent \in percents : \E r \in max17048_set_bat_low_soc(Ctx(bus), percent) :
        Setter("bat_low", percent, r)

SetUndervoltedVoltage(mvs) ==
    \E mv \in mvs : \E r \in max17048_set_undervolted_voltage(Ctx(bus), mv) :
        Setter("undervolted", mv, r)

SetOvervoltedVoltage(mvs) ==
    \E mv \in mvs : \E r \in max17048_set_overvolted_voltage(Ctx(bus), mv) :
        Setter("overvolted", mv, r)

SetResetVoltage(mvs) ==
    \E mv \in mvs : \E r \in max17048_set_reset_voltage(Ctx(bus), mv) :
        Setter("reset_voltage", mv, r)

SetSocChangeAlert ==
    \E enable \in {0, 1} : \E r \in max17048_set_soc_change_alert(Ctx(bus), enable) :
        Setter("soc_change", enable, r)

SetVoltageResetAlert ==
    \E enable \in {0, 1} : \E r \in max17048_set_voltage_reset_alert(Ctx(bus), enable) :
        Setter("voltage_reset", enable, r)

ClearAlerts ==
    \E r \in max17048_clear_alerts(Ctx(bus)) :
        /\ Return("clear_alerts", 0, r)
        /\ UNCHANGED last

GetAlerts ==
    \E alerts \in BOOLEAN : \E r \in max17048_get_alerts(Ctx(bus), alerts) :
        /\ Return("get_alerts", 0, r)
        /\ UNCHANGED last

Zeroed == [x \in Regs |-> 0]

(* Telemetry specifications: the register the getter reads holds any       *)
(* 16-bit value, and the getter is called any number of times.             *)
InitVcell == \E v \in Word : InitWith([Zeroed EXCEPT ![VCELL] = v])

SpecVcell == InitVcell /\ [][GetVcell]_vars

InitSoc == \E v \in Word : InitWith([Zeroed EXCEPT ![SOC] = v])

SpecSoc == InitSoc /\ [][GetSoc]_vars

InitVersion == \E v \in Word : InitWith([Zeroed EXCEPT ![VERSION] = v])

SpecVersion == InitVersion /\ [][IsPresent]_vars

---------------------------------------------------------------------------
(* Register contents to start from.  Pattern(0) is 0x0000, Pattern(1) is  *)
(* 0xFFFF and the later ones mix the bits (0xAAAD, 0x0002, 0x5557, ...); a *)
(* field of a register is then set to every value of its own.             *)

NumPatterns == 3

Pattern(i) == IF i = 0 THEN 0 ELSE IF i = 1 THEN 65535 ELSE (i * 21845 + 3) % 65536

Field(x, pos, width) == (x \div (2 ^ pos)) % (2 ^ width)

WithField(x, pos, width, f) == x - Field(x, pos, width) * (2 ^ pos) + f * (2 ^ pos)

Device(status, config, valrt, vreset) ==
    [x \in Regs |-> IF x = STATUS THEN WireValue(status)
                    ELSE IF x = CONFIG THEN WireValue(config)
                    ELSE IF x = VALRT THEN WireValue(valrt)
                    ELSE IF x = VRESET_ID THEN WireValue(vreset)
                    ELSE 0]

(* Alerts: STATUS holds every value of its alert field (bits 8-13) over    *)
(* every pattern, CONFIG the next pattern.                                 *)
InitAlerts ==
    \E f \in 0 .. 63, i \in 0 .. (NumPatterns - 1) :
        InitWith(Device(WithField(Pattern(i), ALRT_STATUS_POS, 6, f),
                        Pattern((i + 1) % NumPatterns), 0, 0))

NextAlerts == GetAlerts \/ ClearAlerts

SpecAlerts == InitAlerts /\ [][NextAlerts]_vars

(* Low-battery threshold: the application passes the percentage it was     *)
(* built with (BAT_LOW_PERCENT in max17048.h, any uint8_t here); CONFIG    *)
(* holds every value of its threshold field over every pattern.            *)
InitBatLow ==
    \E p \in Byte, g \in 0 .. 31, i \in 0 .. (NumPatterns - 1) :
        /\ Start(Device(0, WithField(Pattern(i), BAT_LOW_POS, 5, g), 0, 0))
        /\ percent_cfg = p

NextBatLow == SetBatLowSoc({percent_cfg})

SpecBatLow == InitBatLow /\ [][NextBatLow]_vars

(* Setters: every register holds a pattern, and the six setters are called *)
(* in any order with arguments from small sets that hit both ends of each  *)
(* field and a value that wraps around it.                                 *)
PercentSamples == {0, 15, 32}

MvSamples == {3000, 65535}

InitSetters ==
    \E i \in 0 .. (NumPatterns - 1) :
        InitWith(Device(Pattern(i), Pattern(i), Pattern(i), Pattern(i)))

NextSetters ==
    \/ SetBatLowSoc(PercentSamples)
    \/ SetUndervoltedVoltage(MvSamples)
    \/ SetOvervoltedVoltage(MvSamples)
    \/ SetResetVoltage(MvSamples)
    \/ SetSocChangeAlert
    \/ SetVoltageResetAlert

SpecSetters == InitSetters /\ [][NextSetters]_vars

---------------------------------------------------------------------------
(* Two tasks calling the driver with no lock between them: task A calls    *)
(* max17048_set_bat_low_soc and task B max17048_set_soc_change_alert, once *)
(* each.  Both are modify_reg on CONFIG; a task can be preempted between   *)
(* any two transport calls, so each transport call is a step.              *)

ConcPercents == {0, 15, 32}

Other(t) == IF t = "A" THEN "B" ELSE "A"

TaskArgs(t) == IF t = "A" THEN ConcPercents ELSE {0, 1}

TaskValid(t, a) == IF t = "A" THEN bat_low_valid(a) ELSE TRUE

TaskData(t, a) == IF t = "A" THEN bat_low_data(a) ELSE soc_change_data(a)

TaskMask(t) == IF t = "A" THEN BAT_LOW_MSK ELSE ALSC_BIT_MSK

Sequential == UNCHANGED <<op, arg, ret, out, pre, last, percent_cfg>>

(* The call is entered: the argument check, before any transport call.     *)
TaskEnter(t) ==
    /\ pc[t] = "idle"
    /\ \E a \in TaskArgs(t) :
        /\ targ' = [targ EXCEPT ![t] = a]
        /\ pc' = [pc EXCEPT ![t] = IF TaskValid(t, a) THEN "read" ELSE "failed"]
    /\ overlap' = (overlap \/ pc[Other(t)] \in {"read", "write"})
    /\ UNCHANGED <<bus, buf, calls>>
    /\ Sequential

(* modify_reg: read_reg(reg, &buf).                                        *)
TaskRead(t) ==
    /\ pc[t] = "read"
    /\ \E r \in read_reg([bus |-> bus, calls |-> calls], CONFIG) :
        /\ pc' = [pc EXCEPT ![t] = IF r.ok THEN "write" ELSE "failed"]
        /\ buf' = [buf EXCEPT ![t] = IF r.ok THEN r.val ELSE buf[t]]
        /\ calls' = r.c.calls
    /\ UNCHANGED <<bus, targ, overlap>>
    /\ Sequential

(* modify_reg: the merge and write_reg(reg, buf).                          *)
TaskWrite(t) ==
    /\ pc[t] = "write"
    /\ \E w \in write_reg([bus |-> bus, calls |-> calls], CONFIG,
                          Merge(buf[t], TaskData(t, targ[t]), TaskMask(t))) :
        /\ pc' = [pc EXCEPT ![t] = IF w.ok THEN "ok" ELSE "failed"]
        /\ bus' = w.c.bus
        /\ calls' = w.c.calls
    /\ UNCHANGED <<buf, targ, overlap>>
    /\ Sequential

InitConc ==
    \E i \in 0 .. (NumPatterns - 1) : InitWith(Device(0, Pattern(i), 0, 0))

NextConc == \E t \in Tasks : TaskEnter(t) \/ TaskRead(t) \/ TaskWrite(t)

SpecConc == InitConc /\ [][NextConc]_vars

---------------------------------------------------------------------------
(* Properties.  Host(b, reg) is the 16-bit value register reg holds in     *)
(* device image b; the transport calls of the last function are in calls.  *)

Host(b, reg) == DeviceValue(b, reg)

CallOk(i) == calls[i][3]

AllOk(cs) == \A i \in 1 .. Len(cs) : cs[i][3]

Shape(cs) == [i \in 1 .. Len(cs) |-> <<cs[i][1], cs[i][2]>>]

IsPrefix(p, q) == Len(p) <= Len(q) /\ \A i \in 1 .. Len(p) : p[i] = q[i]

SameBits(x, y, bits) == \A i \in bits : Bit(x, i) = Bit(y, i)

ClearShape ==
    << <<"read", STATUS>>, <<"write", STATUS>>, <<"read", CONFIG>>, <<"write", CONFIG>> >>

GetShape == << <<"read", STATUS>> >> \o ClearShape

(* C8: a successful max17048_get_vcell stores exactly (raw * 5) >> 6: no   *)
(* overflow of the product and no truncation in the uint16_t result, at    *)
(* most 5119 (reached by raw 0xFFFF; raw 0x0C80 gives 250); and decoding   *)
(* is monotone: what it stores for raw is no smaller than what the decoder *)
(* gives for raw - 1 (hence, step by step, for any smaller raw) and for 0. *)
C8_VcellExactAndMonotone ==
    (op = "get_vcell" /\ ret) =>
        LET raw == Host(pre, VCELL)
        IN  /\ out = (raw * 5) \div 64
            /\ out <= 5119
            /\ (raw = 65535 => out = 5119)
            /\ (raw = 3200 => out = 250)
            /\ \A r1 \in {0, raw - 1} \cap Word : U16(VCELL_TO_MV(r1)) <= out
            /\ bus = pre

C8_Witness ==
    /\ op = "get_vcell" /\ ret
    /\ Host(pre, VCELL) = 65535
    /\ out = 5119

(* C5 as stated: a successful max17048_get_soc stores a percentage between *)
(* 0 and 100, the upper byte of the SOC register.                          *)
C5_SocWithin0To100 ==
    (op = "get_soc" /\ ret) =>
        /\ out = Host(pre, SOC) \div 256
        /\ out \in 0 .. 100

(* C5 amended: a successful max17048_get_soc stores the upper byte of the  *)
(* SOC register, a value between 0 and 255; it is at most 100 exactly when *)
(* the register content is at most 0x64FF (raw 0x5A00 gives 90).           *)
C5_SocUpperByte ==
    (op = "get_soc" /\ ret) =>
        LET raw == Host(pre, SOC)
        IN  /\ out = raw \div 256
            /\ out \in 0 .. 255
            /\ (out <= 100 <=> raw <= 25855)
            /\ (raw = 23040 => out = 90)
            /\ bus = pre

C5_Witness ==
    /\ op = "get_soc" /\ ret
    /\ Host(pre, SOC) = 23040
    /\ out = 90

(* C7: max17048_is_present returns true exactly when its one transport     *)
(* read succeeded and the version register holds 0x0010 .. 0x001F (its     *)
(* bits 4-15 are 0x001); otherwise, and when the read failed, it returns   *)
(* false, and it stores nothing and leaves the device alone.               *)
C7_PresentIffPartNumber ==
    (op = "is_present") =>
        LET v == Host(pre, VERSION)
        IN  /\ Shape(calls) = << <<"read", VERSION>> >>
            /\ ret <=> (CallOk(1) /\ v \in 16 .. 31)
            /\ ret <=> (CallOk(1) /\ v - (v % 16) = 16)
            /\ out = NotWritten
            /\ bus = pre

C7_Witness ==
    /\ op = "is_present" /\ ret
    /\ Host(pre, VERSION) = 31

(* C1 as stated: max17048_get_alerts, called with a non-null pointer (so   *)
(* it issued at least one transport call), returns true exactly when every *)
(* transport call it issued succeeded.                                     *)
C1_FailureReported ==
    (op = "get_alerts" /\ Len(calls) > 0) => (ret <=> AllOk(calls))

NamedAlerts ==
    {MAX_ALERT_RESET, MAX_ALERT_OVERVOLTED, MAX_ALERT_UNDERVOLTED,
     MAX_ALERT_VOLTAGE_RESET, MAX_ALERT_SOC_LOW, MAX_ALERT_SOC_CHANGE}

(* C2 as stated: the mask max17048_get_alerts stores after reading STATUS  *)
(* has no bit outside the six named alert flags (mask & ~0xB7 == 0).       *)
C2_OnlyNamedAlerts ==
    (op = "get_alerts" /\ Len(calls) > 0 /\ AllOk(calls)) =>
        \A i \in 0 .. 7 : Bit(out, i) = 1 => 2 ^ i \in NamedAlerts

(* C3: when every transport call of max17048_get_alerts succeeds, it makes *)
(* the five calls read STATUS, read STATUS, write STATUS, read CONFIG,     *)
(* write CONFIG, returns true and stores bits 8-13 of STATUS as it was     *)
(* before the call, shifted down to bits 0-5; afterwards STATUS bits 8-13  *)
(* and CONFIG bit 5 are zero, every other bit of STATUS and CONFIG and     *)
(* every other register is as before; and calling it again at once, every  *)
(* transport call succeeding, stores 0.                                    *)
C3_GetAndClear ==
    (op = "get_alerts" /\ Len(calls) > 0 /\ AllOk(calls)) =>
        /\ Shape(calls) = GetShape
        /\ ret
        /\ out = Field(Host(pre, STATUS), 8, 6)
        /\ Field(Host(bus, STATUS), 8, 6) = 0
        /\ Bit(Host(bus, CONFIG), 5) = 0
        /\ SameBits(Host(bus, STATUS), Host(pre, STATUS), (0 .. 15) \ (8 .. 13))
        /\ SameBits(Host(bus, CONFIG), Host(pre, CONFIG), (0 .. 15) \ {5})
        /\ \A x \in Regs \ {STATUS, CONFIG} : bus[x] = pre[x]
        /\ \A r \in max17048_get_alerts(Ctx(bus), TRUE) :
               AllOk(r.c.calls) => (r.ret /\ r.out = 0)

C3_Witness ==
    /\ op = "get_alerts" /\ Len(calls) = 5 /\ AllOk(calls)
    /\ Field(Host(pre, STATUS), 8, 6) = 42
    /\ out = 42
    /\ Bit(Host(pre, CONFIG), 5) = 1
    /\ Bit(Host(bus, CONFIG), 5) = 0

(* C9: modify_reg, max17048_clear_alerts and max17048_get_alerts stop at   *)
(* the first transport call that fails: only the last call issued can have *)
(* failed; the calls are a prefix of read STATUS, write STATUS, read       *)
(* CONFIG, write CONFIG (after the read of STATUS, for get_alerts), so a   *)
(* failed read is followed by no write, STATUS is transacted before CONFIG *)
(* and CONFIG is not touched when the STATUS step failed; a register with  *)
(* no successful write among the calls holds what it held before; and      *)
(* max17048_clear_alerts returns true only when all four calls succeeded.  *)
C9_ShortCircuit ==
    (op \in {"clear_alerts", "get_alerts"}) =>
        /\ \A i \in 1 .. (Len(calls) - 1) : CallOk(i)
        /\ IsPrefix(Shape(calls), IF op = "get_alerts" THEN GetShape ELSE ClearShape)
        /\ \A x \in Regs :
               (\A i \in 1 .. Len(calls) : calls[i] # <<"write", x, TRUE>>) => bus[x] = pre[x]
        /\ (op = "clear_alerts") => (ret <=> (Len(calls) = 4 /\ AllOk(calls)))

C9_Witness ==
    /\ op = "get_alerts"
    /\ Shape(calls) = << <<"read", STATUS>>, <<"read", STATUS>>, <<"write", STATUS>> >>
    /\ ~CallOk(3)
    /\ Field(Host(bus, STATUS), 8, 6) = 63
    /\ bus = pre

(* C4: max17048_set_bat_low_soc(p), for every uint8_t p: when p is outside *)
(* 1 .. 32 it returns false, issues no transport call and leaves the       *)
(* device alone; otherwise it issues transport calls and, when it returns  *)
(* true, bits 0-4 of CONFIG hold 32 - p for p in 1 .. 31 and 0 for p = 32, *)
(* the other bits of CONFIG being as before.                               *)
C4_BatLowEncoding ==
    (op = "bat_low") =>
        LET p == arg
            f == Field(Host(bus, CONFIG), 0, 5)
        IN  /\ p = percent_cfg
            /\ (p \notin 1 .. 32) => (~ret /\ calls = <<>> /\ bus = pre)
            /\ (p \in 1 .. 32) => Len(calls) >= 1
            /\ (ret /\ p \in 1 .. 31) => f = 32 - p
            /\ (ret /\ p = 32) => f = 0
            /\ ret => SameBits(Host(bus, CONFIG), Host(pre, CONFIG), 5 .. 15)
            /\ ~ret => bus = pre

C4_Witness ==
    /\ op = "bat_low" /\ ret
    /\ arg = 32
    /\ Field(Host(pre, CONFIG), 0, 5) = 31
    /\ Field(Host(bus, CONFIG), 0, 5) = 0

(* Each setter's field (register, lowest bit, width), the encoding the     *)
(* datasheet scale gives its argument, and the call itself.                *)
FieldReg(s) ==
    CASE s \in {"bat_low", "soc_change"} -> CONFIG
      [] s \in {"undervolted", "overvolted"} -> VALRT
      [] s = "reset_voltage" -> VRESET_ID
      [] s = "voltage_reset" -> STATUS

FieldPos(s) ==
    CASE s = "bat_low" -> 0
      [] s = "soc_change" -> 6
      [] s = "undervolted" -> 8
      [] s = "overvolted" -> 0
      [] s = "reset_voltage" -> 9
      [] s = "voltage_reset" -> 14

FieldWidth(s) ==
    CASE s = "bat_low" -> 5
      [] s \in {"soc_change", "voltage_reset"} -> 1
      [] s \in {"undervolted", "overvolted"} -> 8
      [] s = "reset_voltage" -> 7

Encoding(s, a) ==
    CASE s = "bat_low" -> (32 - a) % 32
      [] s \in {"soc_change", "voltage_reset"} -> a
      [] s \in {"undervolted", "overvolted"} -> (a \div 20) % 256
      [] s = "reset_voltage" -> (a \div 40) % 128

FieldBits(s) == FieldPos(s) .. (FieldPos(s) + FieldWidth(s) - 1)

SetterCall(s, a, c) ==
    CASE s = "bat_low" -> max17048_set_bat_low_soc(c, a)
      [] s = "soc_change" -> max17048_set_soc_change_alert(c, a)
      [] s = "undervolted" -> max17048_set_undervolted_voltage(c, a)
      [] s = "overvolted" -> max17048_set_overvolted_voltage(c, a)
      [] s = "reset_voltage" -> max17048_set_reset_voltage(c, a)
      [] s = "voltage_reset" -> max17048_set_voltage_reset_alert(c, a)

OwnedBits(reg) == UNION {FieldBits(s) : s \in {t \in Setters : FieldReg(t) = reg}}

(* C6: a setter that returns true leaves its register with the field's     *)
(* bits equal to the encoding of its argument and every other bit, and     *)
(* every other register, as before the call; the same call made again      *)
(* changes nothing.  Hence, after any sequence of setter calls, each field *)
(* that was set holds the encoding of the argument of the last successful  *)
(* call of its setter, and the bits of no setter's field (CONFIG 5 and     *)
(* 7-15, VRESET 0-8, STATUS 0-13 and 15) and the registers no setter       *)
(* writes are those of the initial pattern.                                *)
C6_MaskedUpdate ==
    /\ (op \in Setters /\ ret) =>
        LET x == FieldReg(op)
            new == Host(bus, x)
            old == Host(pre, x)
        IN  /\ Field(new, FieldPos(op), FieldWidth(op)) = Encoding(op, arg)
            /\ SameBits(new, old, (0 .. 15) \ FieldBits(op))
            /\ \A y \in Regs \ {x} : bus[y] = pre[y]
            /\ \A r \in SetterCall(op, arg, Ctx(bus)) : r.ret => r.c.bus = bus
    /\ \A s \in Setters :
        last[s] # NotSet =>
            Field(Host(bus, FieldReg(s)), FieldPos(s), FieldWidth(s)) = Encoding(s, last[s])
    /\ \E i \in 0 .. (NumPatterns - 1) :
        \A x \in Regs :
            IF x \in {CONFIG, VALRT, VRESET_ID, STATUS}
            THEN SameBits(Host(bus, x), Pattern(i), (0 .. 15) \ OwnedBits(x))
            ELSE bus[x] = 0

C6_Witness ==
    /\ op = "soc_change" /\ ret /\ arg = 0
    /\ last["bat_low"] = 15
    /\ last["undervolted"] = 65535
    /\ last["overvolted"] = 3000
    /\ last["reset_voltage"] = 3000
    /\ Host(bus, CONFIG) = 65440 + 17
    /\ Host(bus, VALRT) = 204 * 256 + 150
    /\ Host(bus, VRESET_ID) = 75 * 512 + 511

(* C10, serialized half: when the two tasks' calls did not overlap and     *)
(* both returned true, CONFIG holds both updates, whichever ran first:     *)
(* bits 0-4 the encoding of A's percentage and bit 6 B's enable, the rest  *)
(* as initially.                                                           *)
BothReturnedTrue == pc["A"] = "ok" /\ pc["B"] = "ok"

BothUpdatesPresent ==
    /\ Field(Host(bus, CONFIG), 0, 5) = (32 - targ["A"]) % 32
    /\ Bit(Host(bus, CONFIG), 6) = targ["B"]

C10_SerializedKeepsBoth ==
    (BothReturnedTrue /\ ~overlap) =>
        /\ BothUpdatesPresent
        /\ SameBits(Host(bus, CONFIG), Host(pre, CONFIG), (0 .. 15) \ {0, 1, 2, 3, 4, 6})

(* C10, unserialized half: an interleaving of the four transport calls in  *)
(* which both calls return true and one update is missing from CONFIG.     *)
C10_LostUpdate ==
    /\ BothReturnedTrue
    /\ overlap
    /\ AllOk(calls)
    /\ ~BothUpdatesPresent

===========================================================================
